---- MODULE Spec2Model ----
(***************************************************************************)
(* A model of struct-tag-validator (package validator): the rule registry, *)
(* the default rules, the duplicate check and Validator.Run.               *)
(* Strings are sequences of one-character strings, so that regular         *)
(* expressions, joins and suffix tests are computed as the code does.      *)
(***************************************************************************)
EXTENDS Integers, Sequences, FiniteSets, TLC

VARIABLES
    source,          \* v.path: the folder the Validator was made for
    processors,      \* v.processors: registry key -> list of processors
    spare,           \* registry key -> the slots of the array of that list
                     \* beyond its length
    allowDuplicates, \* v.allowDuplicates
    packages,        \* v.packages: the names of the files the last Run parsed
    tags,            \* v.tags: structure name -> list of Tags
    pc,              \* "idle", "getTags" while Run is in the loop of getTags,
                     \* or "validate" while it is in validate's loop
    streams,         \* file name -> the Tags of the file that the loop of
                     \* getTags has not received yet
    collected,       \* the map the loop of getTags fills
    todo,            \* the Tags the loop of validate has still to visit
    fieldsCache,     \* validate's fieldsCache, as the last validate left it
    errs,            \* validate's errs
    result,          \* what the last call returned, when it was a Run
    log,             \* history: the checks executed in that Run
    adds,            \* history: the number of registration calls so far
    runs,            \* history: the number of Run calls so far
    runModels,       \* the file names given to the Run in progress
    last,            \* history: summary of the last Run that returned
    rtag,       \* RuleSpec: the Tag handed to a default processor
    rerrs,      \* RuleSpec: the errors the processor returned
    rdone,      \* RuleSpec: the default processors that have run on rtag
    fdir,       \* FilterSpec: the files of the folder handed to getPackages
    fmodels,    \* FilterSpec: the model names handed to getPackages
    fout,       \* FilterSpec: what getPackages did: the names of the files
                \* it parsed, or its panic
    gfiles,     \* GetTagsSpec: the parsed files, as the loops of getTags
                \* visit them
    gpc,        \* GetTagsSpec: where getTags is: "call", "loop", "returned"
    esends,     \* per file: what the traversal of the extractor goroutine
                \* sends, in its order
    epos,       \* per file: how many of them the goroutine has sent
    tagChan,    \* per file: the buffer of the channel collecFields made
    wpc,        \* per file: where the output goroutine of multiplex is
    wtag,       \* per file: the message the output goroutine holds
    wg,         \* the counter of the sync.WaitGroup of multiplex
    out,        \* the buffer of the channel multiplex made
    clpc,       \* where the closing goroutine of multiplex is
    closes,     \* history: how many times close(out) was executed
    gtags,      \* the map getTags fills
    ghist,      \* history: the messages the loop of getTags received, and
                \* the sends that hit the closed channel
    cfile,      \* ExtractSpec: the file handed to collecFields
    cnames,     \* ExtractSpec: the tag names its matcher was built from
    cpc,        \* ExtractSpec: where the goroutine of collecFields is:
                \* "none" before the call, "run", "ended" after the nil
    csends,     \* what its traversal sends, in its order
    cpos,       \* how many of them it has sent
    cchan,      \* the buffer of tagChan
    cgot        \* history: what the reader of tagChan has received

vvars == <<source, processors, spare, allowDuplicates, packages, tags, pc,
           streams, collected, todo,
           fieldsCache, errs, result, log, adds, runs, runModels, last>>

rvars == <<rtag, rerrs, rdone>>

fvars == <<fdir, fmodels, fout>>

gvars == <<gfiles, gpc, esends, epos, tagChan, wpc, wtag, wg, out, clpc, closes,
           gtags, ghist>>

\* the variables of the specifications of single functions, RuleSpec apart
cvars == <<cfile, cnames, cpc, csends, cpos, cchan, cgot>>

xvars == <<fvars, gvars, cvars>>

vars == <<vvars, rvars, xvars>>

\* ------------------------------------------------------------------ bounds
\* longest tag value drawn for the default rules
MaxLen == 4

\* most registration calls (AddProcessor, AddDefaultProcessors) on a Validator
MaxAdds == 2

\* most Run calls on a Validator
MaxRuns == 2

\* most files handed to getTags when its goroutines are followed
MaxFiles == 2

\* most tagged fields in those files together
MaxTags == 4

\* make(chan *Tag, 50): the capacity of the channel of one file
ChanCap == 50

\* ------------------------------------------------------------- characters
Lower == {"a","b","c","d","e","f","g","h","i","j","k","l","m",
          "n","o","p","q","r","s","t","u","v","w","x","y","z"}

Digit == {"0","1","2","3","4","5","6","7","8","9"}

\* the characters tag values are drawn from: one per class the rules tell apart
ValueChars == {"a", "7", "_", ",", " ", "-", ".", "A"}

\* s[from..to], empty when from > to
Slice(s, from, to) == [i \in 1..(to - from + 1) |-> s[from + i - 1]]

\* all sequences over set S of length 0..n
SeqUpTo(S, n) == UNION {[1..k -> S] : k \in 0..n}

\* ---------------------------------------------------------------- Tag
\* tag.go: type Tag struct { name, value, structName }
Tag(name, value, structName) ==
    [name |-> name, value |-> value, structName |-> structName]

GetName(t) == t.name

GetValue(t) == t.value

GetStructName(t) == t.structName

\* ------------------------------------------------------ defaultRegexRules
\* the message keys of the defaultRegexRules map
MsgInvalidSymbols == "Invalid symboles %v in %v.%v.%v"

MsgCannotEnd == "Tag cannot end on %v in  %v.%v.%v"

MsgEmpty == "Tag cannot be empty %v.%v"

\* a mutation of the character class: the comma left out
SymbolClass_nocomma(c) == c \notin (Lower \cup Digit \cup {"_", " "})

\* the class [^a-z0-9_, ] of the first default regular expression
SymbolClass(c) == c \notin (Lower \cup Digit \cup {"_", ",", " "})

\* a mutation of the end class: the underscore let through
EndClass_underscore(c) == c \notin (Lower \cup Digit \cup {"_"})

\* the class [^a-z0-9] of the second default regular expression
EndClass(c) == c \notin (Lower \cup Digit)

\* a mutation of the + quantifier: the match stops after one character
PlusEnd_single(s, i) == i

\* where a greedy [..]+ that starts matching at i stops: the last index of
\* the maximal run of class characters that begins at i
PlusEnd(s, i) ==
    CHOOSE j \in i..Len(s) :
        /\ \A k \in i..j : SymbolClass(s[k])
        /\ (j = Len(s) \/ ~SymbolClass(s[j + 1]))

\* regexp `[^a-z0-9_, ]+`, FindString: the leftmost match, longest at that
\* position; the empty string when nothing matches
FindInvalidSymbols(s) ==
    IF \E i \in 1..Len(s) : SymbolClass(s[i])
    THEN LET i == CHOOSE i \in 1..Len(s) :
                      /\ SymbolClass(s[i])
                      /\ \A k \in 1..(i - 1) : ~SymbolClass(s[k])
         IN  Slice(s, i, PlusEnd(s, i))
    ELSE <<>>

\* regexp `[^a-z0-9]$`, FindString: the last character when it is in the class
FindCannotEnd(s) ==
    IF Len(s) > 0 /\ EndClass(s[Len(s)]) THEN <<s[Len(s)]>> ELSE <<>>

\* rexpr.FindString(value) for the regular expression stored under msg
FindString(msg, s) ==
    IF msg = MsgInvalidSymbols THEN FindInvalidSymbols(s) ELSE FindCannotEnd(s)

\* the orders in which `range defaultRegexRules` may visit the map
defaultRegexRules == {<<MsgInvalidSymbols, MsgCannotEnd>>,
                      <<MsgCannotEnd, MsgInvalidSymbols>>}

\* fmt.Errorf(msg, args...): the format and its operands
Errorf(msg, args) == [msg |-> msg, args |-> args]

\* first closure of AddDefaultProcessors, visiting the regex map in `order`
RECURSIVE RegexProcessor(_, _)
RegexProcessor(tag, order) ==
    IF order = <<>> THEN <<>>
    ELSE LET msg   == Head(order)
             match == FindString(msg, GetValue(tag))
             e     == IF Len(match) > 0
                      THEN <<Errorf(msg, <<match, GetStructName(tag),
                                           GetName(tag), GetValue(tag)>>)>>
                      ELSE <<>>
         IN  e \o RegexProcessor(tag, Tail(order))

\* second closure of AddDefaultProcessors
EmptyProcessor(tag) ==
    IF Len(GetValue(tag)) = 0
    THEN <<Errorf(MsgEmpty, <<GetStructName(tag), GetName(tag)>>)>>
    ELSE <<>>

\* ---------------------------------------------------------------- strings
UpperSeq == <<"A","B","C","D","E","F","G","H","I","J","K","L","M",
              "N","O","P","Q","R","S","T","U","V","W","X","Y","Z">>

LowerSeq == <<"a","b","c","d","e","f","g","h","i","j","k","l","m",
              "n","o","p","q","r","s","t","u","v","w","x","y","z">>

\* strings.ToLower
ToLower(s) ==
    [i \in 1..Len(s) |->
        IF \E k \in 1..26 : UpperSeq[k] = s[i]
        THEN LowerSeq[CHOOSE k \in 1..26 : UpperSeq[k] = s[i]]
        ELSE s[i]]

\* strings.HasSuffix
HasSuffix(s, suffix) ==
    /\ Len(s) >= Len(suffix)
    /\ Slice(s, Len(s) - Len(suffix) + 1, Len(s)) = suffix

\* strings.Join
RECURSIVE Join(_, _)
Join(elems, sep) ==
    IF Len(elems) = 0 THEN <<>>
    ELSE IF Len(elems) = 1 THEN elems[1]
    ELSE elems[1] \o sep \o Join(Tail(elems), sep)

\* the orders in which a `range` over a map with key set S may visit it
RECURSIVE MapOrders(_)
MapOrders(S) ==
    IF S = {} THEN {<<>>}
    ELSE UNION {{<<k>> \o o : o \in MapOrders(S \ {k})} : k \in S}

\* AllTags = "*"
AllTags == <<"*">>

\* ------------------------------------------------------------ getPackages
\* the file-name filter handed to parser.ParseDir
FileFilter(fname, models) ==
    LET modelMap  == {Join(<<ToLower(models[i]), <<"g","o">>>>, <<".">>) :
                         i \in DOMAIN models}
        isNotTest == ~HasSuffix(fname, <<"_","t","e","s","t",".","g","o">>)
    IN  IF modelMap # {}
        THEN isNotTest # ~(ToLower(fname) \in modelMap)
        ELSE isNotTest

\* getPackages: the files of the folder that pass the filter
getPackages(folder, models) == {f \in folder : FileFilter(f.name, models)}

\* ---------------------------------------------------------------- dbRegex
\* the characters of the class [a-z0-9_]
NameClass(c) == c \in (Lower \cup Digit \cup {"_"})

\* getTags: the wildcard key among the names swaps the matcher's first group
IsWildcard(tagNames) == \E i \in DOMAIN tagNames : tagNames[i] = AllTags

\* the name p, read as the regular expression regexp.MustCompile reads it,
\* matches s at position i: "." is any character but a newline, every other
\* character of the names in use (letters, digits, "_") is itself
NameMatchesAt(p, s, i) ==
    /\ i + Len(p) - 1 <= Len(s)
    /\ \A k \in 1..Len(p) :
          IF p[k] = "." THEN s[i + k - 1] # "\n" ELSE p[k] = s[i + k - 1]

\* the first index >= i that does not hold a space
SkipSpaces(s, i) ==
    CHOOSE j \in i..(Len(s) + 1) :
        /\ \A k \in i..(j - 1) : s[k] = " "
        /\ (j = Len(s) + 1 \/ s[j] # " ")

\* `[ ]*:[ ]*"([^"]*)"` matched from index i, after a first group `name`
\* that started at index from; no match gives ok = FALSE
RestMatch(s, from, name, i) ==
    LET c == SkipSpaces(s, i)
    IN  IF c > Len(s) \/ s[c] # ":" THEN [ok |-> FALSE]
        ELSE LET q == SkipSpaces(s, c + 1)
             IN  IF q > Len(s) \/ s[q] # "\"" THEN [ok |-> FALSE]
                 ELSE IF \A e \in (q + 1)..Len(s) : s[e] # "\""
                      THEN [ok |-> FALSE]
                      ELSE LET e == CHOOSE e \in (q + 1)..Len(s) :
                                        /\ s[e] = "\""
                                        /\ \A k \in (q + 1)..(e - 1) : s[k] # "\""
                           IN  [ok |-> TRUE, name |-> name,
                                value |-> Slice(s, q + 1, e - 1), end |-> e]

\* the match of `([a-z0-9_]+)[ ]*:[ ]*"([^"]*)"` that starts at index i
WildMatchAt(s, i) ==
    IF i > Len(s) \/ ~NameClass(s[i]) THEN [ok |-> FALSE]
    ELSE LET e == CHOOSE e \in i..Len(s) :
                      /\ \A k \in i..e : NameClass(s[k])
                      /\ (e = Len(s) \/ ~NameClass(s[e + 1]))
         IN  RestMatch(s, i, Slice(s, i, e), e + 1)

\* the match of `(n1|n2|..)[ ]*:[ ]*"([^"]*)"` that starts at index i: the
\* first alternative, in the order of tagNames, with which the whole matches
RECURSIVE AltMatchAt(_, _, _)
AltMatchAt(s, i, tagNames) ==
    IF tagNames = <<>> THEN [ok |-> FALSE]
    ELSE LET p == Head(tagNames)
             m == IF NameMatchesAt(p, s, i)
                  THEN RestMatch(s, i, Slice(s, i, i + Len(p) - 1), i + Len(p))
                  ELSE [ok |-> FALSE]
         IN  IF m.ok THEN m ELSE AltMatchAt(s, i, Tail(tagNames))

\* dbRegex matched at index i
MatchAt(s, i, tagNames) ==
    IF IsWildcard(tagNames) THEN WildMatchAt(s, i)
    ELSE IF tagNames = <<>> THEN AltMatchAt(s, i, <<<<>>>>)
    ELSE AltMatchAt(s, i, tagNames)

\* dbRegex.FindAllStringSubmatch(s, -1), searching from index from: the
\* successive leftmost non-overlapping matches, as <<name, value>> pairs
RECURSIVE FindAllStringSubmatch(_, _, _)
FindAllStringSubmatch(s, from, tagNames) ==
    IF from > Len(s) THEN <<>>
    ELSE LET m == MatchAt(s, from, tagNames)
         IN  IF m.ok
             THEN <<<<m.name, m.value>>>>
                  \o FindAllStringSubmatch(s, m.end + 1, tagNames)
             ELSE FindAllStringSubmatch(s, from + 1, tagNames)

\* ------------------------------------------------------------ collecFields
\* a field without a tag
NoTag == <<>>

\* the Tags of the fields of one *ast.StructType node
RECURSIVE StructTypeTags(_, _, _)
StructTypeTags(fieldTags, structName, tagNames) ==
    IF fieldTags = <<>> THEN <<>>
    ELSE LET matches == IF Head(fieldTags) = NoTag THEN <<>>
                        ELSE FindAllStringSubmatch(Head(fieldTags), 1, tagNames)
         IN  [k \in 1..Len(matches) |->
                 Tag(matches[k][1], matches[k][2], structName)]
             \o StructTypeTags(Tail(fieldTags), structName, tagNames)

\* a mutation of the callback: it returns true for a function declaration
\* too, so the traversal goes on below it
RECURSIVE Inspect_descend(_, _, _)
Inspect_descend(nodes, st, tagNames) ==
    IF nodes = <<>> THEN st
    ELSE LET x == Head(nodes)
             after ==
                CASE x.type = "TypeSpec" ->
                        Inspect_descend(x.children,
                                [structName |-> x.name, out |-> st.out], tagNames)
                  [] x.type = "StructType" ->
                        Inspect_descend(x.children,
                                [structName |-> st.structName,
                                 out |-> st.out \o StructTypeTags(x.fieldTags,
                                                     st.structName, tagNames)],
                                tagNames)
                  [] x.type = "ValueSpec" -> st
                  [] OTHER -> Inspect_descend(x.children, st, tagNames)
         IN  Inspect_descend(Tail(nodes), after, tagNames)

\* ast.Inspect over the nodes of a list and what lies below them, in depth-
\* first order, with the callback of collecFields; st carries structName and
\* the Tags sent so far
RECURSIVE Inspect(_, _, _)
Inspect(nodes, st, tagNames) ==
    IF nodes = <<>> THEN st
    ELSE LET x == Head(nodes)
             after ==
                CASE x.type = "TypeSpec" ->
                        Inspect(x.children,
                                [structName |-> x.name, out |-> st.out], tagNames)
                  [] x.type = "StructType" ->
                        Inspect(x.children,
                                [structName |-> st.structName,
                                 out |-> st.out \o StructTypeTags(x.fieldTags,
                                                     st.structName, tagNames)],
                                tagNames)
                  [] x.type \in {"FuncDecl", "ValueSpec"} -> st
                  [] OTHER -> Inspect(x.children, st, tagNames)
         IN  Inspect(Tail(nodes), after, tagNames)

\* collecFields: the Tags sent on the file's channel before the nil
collecFields(file, tagNames) ==
    Inspect(file.decls, [structName |-> <<>>, out |-> <<>>], tagNames).out

\* ---------------------------------------------------------------- getTags
\* a mutation of the append: the list of the structure is replaced
appendTag_replace(m, tag) ==
    [sn \in DOMAIN m \cup {tag.structName} |->
        IF sn = tag.structName THEN <<tag>> ELSE m[sn]]

\* tags[tag.structName] = append(tags[tag.structName], tag)
appendTag(m, tag) ==
    [sn \in DOMAIN m \cup {tag.structName} |->
        IF sn = tag.structName
        THEN Append(IF sn \in DOMAIN m THEN m[sn] ELSE <<>>, tag)
        ELSE m[sn]]

\* ------------------------------------------------------------- processors
\* the processors a caller may hand to AddProcessor: the one of the tests
CustomFns == {"toolong"}

\* v.processors[tag] = append(v.processors[tag], p); a registered processor
\* carries, as history, its key and its place in the list of that key
AppendProcessor(procs, tag, fn) ==
    LET list == IF tag \in DOMAIN procs THEN procs[tag] ELSE <<>>
        p    == [fn |-> fn, key |-> tag, id |-> Len(list) + 1]
    IN  [k \in DOMAIN procs \cup {tag} |->
            IF k = tag THEN Append(list, p) ELSE procs[k]]

\* an array slot nothing was stored in
NilProcessor == [fn |-> "nil", key |-> <<>>, id |-> 0]

\* append to a full slice of length n: the capacity of the array it moves to
growCap(n) == IF n = 0 THEN 1 ELSE 2 * n

\* v.processors[tag] = append(v.processors[tag], p), for the slots beyond
\* the length: the processor takes the first free slot, and when there is
\* none the list moves to a larger array
AppendSpare(procs, sp, tag) ==
    LET list == IF tag \in DOMAIN procs THEN procs[tag] ELSE <<>>
        free == IF tag \in DOMAIN sp THEN sp[tag] ELSE <<>>
    IN  [k \in DOMAIN sp \cup {tag} |->
            IF k # tag THEN sp[k]
            ELSE IF free # <<>> THEN Tail(free)
            ELSE [i \in 1..(growCap(Len(list)) - Len(list) - 1) |->
                     NilProcessor]]

\* the loop of AddDefaultProcessors over its tags, for the slots beyond the
\* lengths
RECURSIVE AddDefaultsSpare(_, _, _)
AddDefaultsSpare(procs, sp, tagStrs) ==
    IF tagStrs = <<>> THEN sp
    ELSE LET h  == Head(tagStrs)
             p1 == AppendProcessor(procs, h, "regex")
             s1 == AppendSpare(procs, sp, h)
         IN  AddDefaultsSpare(AppendProcessor(p1, h, "empty"),
                              AppendSpare(p1, s1, h), Tail(tagStrs))

\* the loop of AddDefaultProcessors over its tags
RECURSIVE AddDefaults(_, _)
AddDefaults(procs, tagStrs) ==
    IF tagStrs = <<>> THEN procs
    ELSE AddDefaults(
            AppendProcessor(AppendProcessor(procs, Head(tagStrs), "regex"),
                            Head(tagStrs), "empty"),
            Tail(tagStrs))

\* processor(t) for a registered processor; order is the order in which the
\* regex processor visits defaultRegexRules
CallProcessor(p, t, order) ==
    CASE p.fn = "regex"   -> RegexProcessor(t, order)
      [] p.fn = "empty"   -> EmptyProcessor(t)
      [] p.fn = "toolong" -> IF Len(t.value) > 2
                             THEN <<[msg |-> "Too long", args |-> <<>>]>>
                             ELSE <<>>

\* ------------------------------------------------------ checkForDuplicates
\* cacheKey := strings.Join([]string{structName, name, value}, ".")
cacheKey(t) == Join(<<GetStructName(t), GetName(t), GetValue(t)>>, <<".">>)

MsgDuplicate == "Duplicate tag value %v in %v.%v"

\* checkForDuplicates: the errors returned and the cache left behind
checkForDuplicates(t, cache) ==
    [errs  |-> IF cacheKey(t) \in cache
               THEN <<Errorf(MsgDuplicate,
                             <<GetValue(t), GetStructName(t), GetName(t)>>)>>
               ELSE <<>>,
     cache |-> cache \cup {cacheKey(t)}]

\* --------------------------------------------------------------- validate
ErrNoProcessors ==
    [msg |-> "there are no processors to run, consider adding the default ones",
     args |-> <<>>]

ErrNoTags == [msg |-> "No tags found", args |-> <<>>]

\* a mutation of Run: the registry is never found empty
NoProcessors_never(procs) == FALSE

\* Run: len(v.processors) == 0
NoProcessors(procs) == DOMAIN procs = {}

\* a mutation of validate: the tag map is never found empty
NoTagsFound_never(tagMap) == FALSE

\* validate: len(v.tags) == 0
NoTagsFound(tagMap) == DOMAIN tagMap = {}

\* a mutation of validate: the cache of the Run before is kept
NewFieldsCache_stale == fieldsCache

\* validate: fieldsCache := map[string]bool{}
NewFieldsCache == {}

\* a mutation of the lookup: the wildcard processors before the named ones
executableProcessors_globalFirst(procs, t) ==
    (IF AllTags \in DOMAIN procs THEN procs[AllTags] ELSE <<>>)
    \o (IF GetName(t) \in DOMAIN procs THEN procs[GetName(t)] ELSE <<>>)

\* a mutation of the lookup: the processors of the key db are taken whatever
\* the name of the Tag
executableProcessors_wrongKey(procs, t) ==
    (IF <<"d", "b">> \in DOMAIN procs THEN procs[<<"d", "b">>] ELSE <<>>)
    \o (IF AllTags \in DOMAIN procs THEN procs[AllTags] ELSE <<>>)

\* validate: the processors of the Tag's name, then those of AllTags
executableProcessors(procs, t) ==
    (IF GetName(t) \in DOMAIN procs THEN procs[GetName(t)] ELSE <<>>)
    \o (IF AllTags \in DOMAIN procs THEN procs[AllTags] ELSE <<>>)

\* a mutation of validate: the concatenation is stored in the registry
registryAfterConcat_stored(procs, t) ==
    IF GetName(t) \in DOMAIN procs
    THEN [procs EXCEPT ![GetName(t)] = executableProcessors(procs, t)]
    ELSE procs

\* validate: v.processors after a round of the loop, which assigns to no
\* entry of it
registryAfterConcat(procs, t) == procs

\* validate: executableProcessors = append(processors), which is the slice
\* of the registry itself, then append(executableProcessors,
\* globalProcessors...): the wildcard processors are written into the free
\* slots of the array of the registry's list when they fit there, and into
\* a new array otherwise
spareAfterConcat(procs, sp, t) ==
    IF /\ GetName(t) \in DOMAIN procs
       /\ AllTags \in DOMAIN procs
       /\ Len(procs[AllTags]) <= Len(sp[GetName(t)])
    THEN [sp EXCEPT ![GetName(t)] =
             procs[AllTags] \o SubSeq(@, Len(procs[AllTags]) + 1, Len(@))]
    ELSE sp

\* for each processor of a list, the orders in which it may visit
\* defaultRegexRules: those of the map for the regex processor, which alone
\* ranges over it
RECURSIVE RangeOrders(_)
RangeOrders(exec) ==
    IF exec = <<>> THEN {<<>>}
    ELSE {<<o>> \o r :
             o \in (IF Head(exec).fn = "regex" THEN defaultRegexRules
                    ELSE {<<>>}),
             r \in RangeOrders(Tail(exec))}

\* a mutation of the loop over the processors: it stops after the first
\* processor that returned an error
RECURSIVE RunProcessors_stop(_, _, _)
RunProcessors_stop(exec, t, orders) ==
    IF exec = <<>> THEN <<>>
    ELSE LET res == CallProcessor(Head(exec), t, Head(orders))
         IN  <<[rule |-> Head(exec), out |-> res]>>
             \o (IF res # <<>> THEN <<>>
                 ELSE RunProcessors_stop(Tail(exec), t, Tail(orders)))

\* validate: for _, processor := range executableProcessors; each call with
\* what it returned
RECURSIVE RunProcessors(_, _, _)
RunProcessors(exec, t, orders) ==
    IF exec = <<>> THEN <<>>
    ELSE <<[rule |-> Head(exec),
            out  |-> CallProcessor(Head(exec), t, Head(orders))]>>
         \o RunProcessors(Tail(exec), t, Tail(orders))

\* the concatenation of the sequences of a sequence
RECURSIVE Flatten(_)
Flatten(ss) == IF ss = <<>> THEN <<>> ELSE Head(ss) \o Flatten(Tail(ss))

\* ----------------------------------------------------------------- sources
\* name:"value"
KV(name, value) == name \o <<":", "\"">> \o value \o <<"\"">>

\* the literal of a field tag with its two quotes; an apostrophe stands for
\* the back quote, which the matcher tells as little from its classes
RawTag(kvs) == <<"'">> \o Join(kvs, <<" ">>) \o <<"'">>

StructType(fieldTags, nested) ==
    [type |-> "StructType", fieldTags |-> fieldTags, children |-> nested]

\* type name struct { fields }
TypeSpec(name, fieldTags) ==
    [type |-> "TypeSpec", name |-> name,
     children |-> <<StructType(fieldTags, <<>>)>>]

\* func testFunc() { type name struct { fields } }
FuncDecl(name, fieldTags) ==
    [type |-> "FuncDecl", children |-> <<TypeSpec(name, fieldTags)>>]

File(name, decls) == [name |-> name, decls |-> decls]

DB == <<"d", "b">>

JSON == <<"j", "s", "o", "n">>

NewTag == <<"n", "e", "w", "t", "a", "g">>

KeyA == <<"a">>

KeyAB == <<"a", ".", "b">>

Id == <<"i", "d">>

Customer == <<"C","u","s","t","o","m","e","r">>

CustomerGo == <<"c","u","s","t","o","m","e","r",".","g","o">>

Customer1Go == <<"c","u","s","t","o","m","e","r","1",".","g","o">>

\* the same db value three times under one structure name, in two files
SrcDuplicates ==
    {File(CustomerGo,
          <<TypeSpec(Customer, <<RawTag(<<KV(JSON, Id), KV(DB, Id)>>),
                                 RawTag(<<KV(DB, Id)>>)>>),
            FuncDecl(<<"F">>, <<RawTag(<<KV(DB, Id)>>)>>)>>),
     File(Customer1Go,
          <<TypeSpec(Customer, <<RawTag(<<KV(DB, Id)>>)>>)>>)}

\* tag names with a dot: a:"b.c" and a.b:"c" in one structure
SrcDotted ==
    {File(<<"s", ".", "g", "o">>,
          <<TypeSpec(<<"S">>, <<RawTag(<<KV(KeyA, <<"b", ".", "c">>)>>),
                                RawTag(<<KV(KeyAB, <<"c">>)>>)>>)>>)}

\* values the default and the custom processors object to
SrcFindings ==
    {File(<<"t", ".", "g", "o">>,
          <<TypeSpec(<<"T">>, <<RawTag(<<KV(DB, <<"a", "-">>),
                                         KV(JSON, <<"a", "b", "c">>)>>),
                                NoTag>>),
            TypeSpec(<<"U">>, <<RawTag(<<KV(DB, <<>>)>>)>>)>>)}

\* a file whose only tagged field lies in a function body
SrcNoTags ==
    {File(<<"n", ".", "g", "o">>,
          <<TypeSpec(<<"N">>, <<NoTag>>),
            FuncDecl(<<"F">>, <<RawTag(<<KV(DB, Id)>>)>>)>>)}

\* fields none of the default processors objects to
SrcPlain ==
    {File(<<"p", ".", "g", "o">>,
          <<TypeSpec(<<"P">>, <<RawTag(<<KV(JSON, Id), KV(DB, Id)>>),
                                RawTag(<<KV(DB, <<"a", "b", "c">>)>>)>>)>>)}

S1Go == <<"s", "1", ".", "g", "o">>

S2Go == <<"s", "2", ".", "g", "o">>

\* the fields of the dotted folder, each in a file of its own that declares
\* the structure S (two files of one folder, say under build constraints)
SrcSplit ==
    {File(S1Go, <<TypeSpec(<<"S">>, <<RawTag(<<KV(KeyA, <<"b", ".", "c">>)>>)>>)>>),
     File(S2Go, <<TypeSpec(<<"S">>, <<RawTag(<<KV(KeyAB, <<"c">>)>>)>>)>>)}

\* the folders a Validator is made for
Sources == {"duplicates", "dotted", "findings", "notags"}

\* the folders of the studies of one aspect of Run
StudySources == {"plain", "split"}

\* the files in a folder
Folder(path) ==
    CASE path = "duplicates" -> SrcDuplicates
      [] path = "dotted"     -> SrcDotted
      [] path = "findings"   -> SrcFindings
      [] path = "notags"     -> SrcNoTags
      [] path = "plain"      -> SrcPlain
      [] path = "split"      -> SrcSplit
      [] OTHER               -> {}

\* the file names given to Run
ModelLists == {<<>>, <<Customer>>}

\* the registry keys given to AddProcessor
ProcessorKeys == {DB, AllTags}

\* the tag lists given to AddDefaultProcessors
DefaultTagLists == {<<>>, <<DB, NewTag>>, <<KeyA, KeyAB>>}

\* the keys a registry may hold
RegistryKeys ==
    ProcessorKeys \cup {AllTags}
       \cup UNION {{l[i] : i \in DOMAIN l} : l \in DefaultTagLists}

\* getTags, up to the call of multiplex: for a folder, a list of file names
\* and the keys of a registry, the Tags the goroutine of each file will send,
\* by file name, over the orders in which the range over v.processors may
\* collect the keys
TagStreams ==
    {[path |-> path, models |-> ms, keys |-> ks,
      streams |-> LET pkgs == getPackages(Folder(path), ms)
                  IN  {[n \in {f.name : f \in pkgs} |->
                           collecFields(CHOOSE f \in pkgs : f.name = n,
                                        tagNames)] :
                          tagNames \in MapOrders(ks)}] :
        path \in Sources \cup StudySources, ms \in ModelLists,
        ks \in SUBSET RegistryKeys}

\* no goroutine of getTags has a Tag to deliver
NoStreams == [n \in {} |-> <<>>]

\* the map getTags starts from
NoTags == [sn \in {} |-> <<>>]

\* ------------------------------------------------------------------- state
NoResult == [status |-> "none", errs |-> <<>>]

NoRun == [done |-> FALSE]

\* getPackages is not under study
NoFilter ==
    /\ fdir = {}
    /\ fmodels = <<>>
    /\ fout = [status |-> "none", files |-> {}]

\* getTags is not under study
NoGetTags ==
    /\ gfiles = <<>>
    /\ gpc = "none"
    /\ esends = <<>>
    /\ epos = <<>>
    /\ tagChan = <<>>
    /\ wpc = <<>>
    /\ wtag = <<>>
    /\ wg = 0
    /\ out = <<>>
    /\ clpc = "none"
    /\ closes = 0
    /\ gtags = [k \in {} |-> <<>>]
    /\ ghist = [received |-> <<>>, late |-> {}]

\* collecFields is not under study
NoExtract ==
    /\ cfile = File(<<>>, <<>>)
    /\ cnames = <<>>
    /\ cpc = "none"
    /\ csends = <<>>
    /\ cpos = 0
    /\ cchan = <<>>
    /\ cgot = <<>>

\* no function is under study on its own
NoFunction == NoFilter /\ NoGetTags /\ NoExtract

\* NewValidator(path), with the folder at that path
Init ==
    /\ source \in Sources
    /\ processors = [k \in {} |-> <<>>]
    /\ spare = [k \in {} |-> <<>>]
    /\ allowDuplicates = FALSE
    /\ packages = {}
    /\ tags = [k \in {} |-> <<>>]
    /\ pc = "idle"
    /\ streams = NoStreams
    /\ collected = NoTags
    /\ todo = <<>>
    /\ fieldsCache = {}
    /\ errs = <<>>
    /\ result = NoResult
    /\ log = <<>>
    /\ adds = 0
    /\ runs = 0
    /\ runModels = <<>>
    /\ last = NoRun
    /\ rtag = Tag(<<>>, <<>>, <<>>)
    /\ rerrs = [p \in {} |-> <<>>]
    /\ rdone = {}
    /\ NoFunction

\* AddProcessor(tag, processor)
AddProcessor ==
    /\ pc = "idle"
    /\ adds < MaxAdds
    /\ \E tag \in ProcessorKeys, fn \in CustomFns :
          /\ processors' = AppendProcessor(processors, tag, fn)
          /\ spare' = AppendSpare(processors, spare, tag)
    /\ adds' = adds + 1
    /\ result' = NoResult
    /\ log' = <<>>
    /\ UNCHANGED <<source, allowDuplicates, packages, tags, pc, todo,
                   fieldsCache, errs, runs, runModels, last, streams,
                   collected, rvars, xvars>>

\* AddDefaultProcessors(tags...)
AddDefaultProcessors ==
    /\ pc = "idle"
    /\ adds < MaxAdds
    /\ \E tagStrs \in DefaultTagLists :
          LET strs == IF Len(tagStrs) = 0 THEN <<AllTags>> ELSE tagStrs
          IN  /\ processors' = AddDefaults(processors, strs)
              /\ spare' = AddDefaultsSpare(processors, spare, strs)
    /\ adds' = adds + 1
    /\ result' = NoResult
    /\ log' = <<>>
    /\ UNCHANGED <<source, allowDuplicates, packages, tags, pc, todo,
                   fieldsCache, errs, runs, runModels, last, streams,
                   collected, rvars, xvars>>

\* SetAllowDuplicates(allowDuplicates)
SetAllowDuplicates ==
    /\ pc = "idle"
    /\ \E b \in BOOLEAN : allowDuplicates' = b
    /\ result' = NoResult
    /\ log' = <<>>
    /\ UNCHANGED <<source, processors, spare, packages, tags, pc, todo,
                   fieldsCache, errs, adds, runs, runModels, last, streams,
                   collected, rvars, xvars>>

\* the elements of a sequence, each with the number of its occurrences
BagOf(seq) ==
    [e \in {seq[i] : i \in DOMAIN seq} |->
        Cardinality({i \in DOMAIN seq : seq[i] = e})]

\* history: what a Run that returned is remembered by: its file names,
\* registry, allowDuplicates, number of duplicate findings and findings
\* without their order, and, when the Run before it had the same file names,
\* keys and allowDuplicates, the number of duplicate findings of that Run,
\* and, when it had the same registry too, whether its findings were these
RunSummary(ms, events, findings) ==
    LET same == /\ last.done
                /\ last.models = ms
                /\ last.keys = DOMAIN processors
                /\ last.allow = allowDuplicates
        again == same /\ last.procs = processors
    IN  [done   |-> TRUE,
         models |-> ms,
         keys   |-> DOMAIN processors,
         procs  |-> processors,
         allow  |-> allowDuplicates,
         dups   |-> Cardinality({i \in DOMAIN events :
                        events[i].kind = "dup" /\ events[i].out # <<>>}),
         msgs   |-> BagOf(findings),
         same   |-> same,
         before |-> IF same THEN last.dups ELSE 0,
         agree  |-> again => last.msgs = BagOf(findings)]

\* Run(models...) when getPackages panics: no file passes the filter
RunPanic ==
    /\ pc = "idle"
    /\ runs < MaxRuns
    /\ \E ms \in ModelLists : getPackages(Folder(source), ms) = {}
    /\ result' = [status |-> "panic", errs |-> <<>>]
    /\ log' = <<>>
    /\ runs' = runs + 1
    /\ UNCHANGED <<source, processors, spare, allowDuplicates, packages, tags, pc,
                   todo, fieldsCache, errs, adds, runModels, last, streams,
                   collected, rvars, xvars>>

\* Run(models...) with an empty registry
RunNoProcessors ==
    /\ pc = "idle"
    /\ runs < MaxRuns
    /\ NoProcessors(processors)
    /\ \E ms \in ModelLists :
          /\ getPackages(Folder(source), ms) # {}
          /\ packages' = {f.name : f \in getPackages(Folder(source), ms)}
          /\ last' = RunSummary(ms, <<>>, <<ErrNoProcessors>>)
    /\ result' = [status |-> "returned", errs |-> <<ErrNoProcessors>>]
    /\ log' = <<>>
    /\ runs' = runs + 1
    /\ UNCHANGED <<source, processors, spare, allowDuplicates, tags, pc, todo,
                   fieldsCache, errs, adds, runModels, streams,
                   collected, rvars, xvars>>

\* history: getTags ran and delivered n Tags
GetTagsEvent(tagMap) ==
    [kind |-> "getTags",
     n    |-> Len(Flatten([i \in 1..Cardinality(DOMAIN tagMap) |->
                  tagMap[(CHOOSE o \in MapOrders(DOMAIN tagMap) : TRUE)[i]]]))]

\* Run(models...) with a registry that is not empty, up to the loop of
\* getTags: the files parsed, the keys collected, the matcher built and one
\* goroutine started per file
RunGetTags ==
    /\ pc = "idle"
    /\ runs < MaxRuns
    /\ ~NoProcessors(processors)
    /\ \E ms \in ModelLists :
          /\ getPackages(Folder(source), ms) # {}
          /\ packages' = {f.name : f \in getPackages(Folder(source), ms)}
          /\ runModels' = ms
          /\ streams' \in (CHOOSE r \in TagStreams :
                                /\ r.path = source
                                /\ r.models = ms
                                /\ r.keys = DOMAIN processors).streams
    /\ collected' = NoTags
    /\ pc' = "getTags"
    /\ result' = NoResult
    /\ log' = <<>>
    /\ runs' = runs + 1
    /\ UNCHANGED <<source, processors, spare, allowDuplicates, tags, todo,
                   fieldsCache, errs, adds, last, rvars, xvars>>

\* one round of the loop of getTags: the next Tag of one of the files
\* arrives on the merged channel and is appended to the list of its structure
GetTagsRecv ==
    /\ pc = "getTags"
    /\ \E n \in DOMAIN streams :
          /\ streams[n] # <<>>
          /\ collected' = appendTag(collected, Head(streams[n]))
          /\ streams' = [streams EXCEPT ![n] = Tail(streams[n])]
    /\ UNCHANGED <<source, processors, spare, allowDuplicates, packages, tags,
                   pc, todo, fieldsCache, errs, result, log, adds, runs,
                   runModels, last, rvars, xvars>>

\* the merged channel is closed, after the last Tag: getTags returns its
\* map, Run stores it and calls validate, which returns at once when there
\* are no Tags and else enters its loop, with the order in which
\* `range v.tags` will visit the Tags
GetTagsReturn ==
    /\ pc = "getTags"
    /\ \A n \in DOMAIN streams : streams[n] = <<>>
    /\ tags' = collected
    /\ log' = <<GetTagsEvent(collected)>>
    /\ IF NoTagsFound(collected)
       THEN /\ result' = [status |-> "returned", errs |-> <<ErrNoTags>>]
            /\ last' = RunSummary(runModels, <<>>, <<ErrNoTags>>)
            /\ pc' = "idle"
            /\ UNCHANGED todo
       ELSE /\ \E o \in MapOrders(DOMAIN collected) :
                  todo' = Flatten([i \in DOMAIN o |-> collected[o[i]]])
            /\ pc' = "validate"
            /\ UNCHANGED <<result, last>>
    /\ fieldsCache' = NewFieldsCache
    /\ errs' = <<>>
    /\ streams' = NoStreams
    /\ collected' = NoTags
    /\ UNCHANGED <<source, processors, spare, allowDuplicates, packages, adds,
                   runs, runModels, rvars, xvars>>

\* history: the number of Tags the loop of validate has visited
Visited(events) == Cardinality({i \in DOMAIN events : events[i].kind = "tag"})

\* one round of the loop of validate, for the Tag t
ValidateTag ==
    /\ pc = "validate"
    /\ todo # <<>>
    /\ LET t    == Head(todo)
           rec  == Visited(log) + 1
           dup  == checkForDuplicates(t, fieldsCache)
           exec == executableProcessors(processors, t)
       IN  \E orders \in RangeOrders(exec) :
              LET calls == RunProcessors(exec, t, orders)
              IN  /\ fieldsCache' = IF ~allowDuplicates THEN dup.cache
                                    ELSE fieldsCache
                  /\ errs' = errs
                        \o (IF ~allowDuplicates THEN dup.errs ELSE <<>>)
                        \o Flatten([i \in DOMAIN calls |-> calls[i].out])
                  /\ log' = log
                        \o <<[kind |-> "tag", rec |-> rec, tag |-> t]>>
                        \o (IF ~allowDuplicates
                            THEN <<[kind |-> "dup", rec |-> rec, tag |-> t,
                                    out |-> dup.errs]>>
                            ELSE <<>>)
                        \o [i \in DOMAIN calls |->
                               [kind |-> "rule", rec |-> rec, tag |-> t,
                                rule |-> calls[i].rule, out |-> calls[i].out]]
    /\ processors' = registryAfterConcat(processors, Head(todo))
    /\ spare' = spareAfterConcat(processors, spare, Head(todo))
    /\ todo' = Tail(todo)
    /\ UNCHANGED <<source, allowDuplicates, packages, tags, pc, result, adds,
                   runs, runModels, last, streams,
                   collected, rvars, xvars>>

\* validate returns errs, and Run returns them
ReturnErrs ==
    /\ pc = "validate"
    /\ todo = <<>>
    /\ result' = [status |-> "returned", errs |-> errs]
    /\ errs' = <<>>
    /\ last' = RunSummary(runModels, log, errs)
    /\ pc' = "idle"
    /\ UNCHANGED <<source, processors, spare, allowDuplicates, packages, tags, todo,
                   fieldsCache, log, adds, runs, runModels, streams,
                   collected, rvars, xvars>>

Next ==
    \/ AddProcessor
    \/ AddDefaultProcessors
    \/ SetAllowDuplicates
    \/ RunPanic
    \/ RunNoProcessors
    \/ RunGetTags
    \/ GetTagsRecv
    \/ GetTagsReturn
    \/ ValidateTag
    \/ ReturnErrs

Spec == Init /\ [][Next]_vars

\* ------------------------------------------------------------ RegistrySpec
\* The Validator, taken up either new or after AddDefaultProcessors("db",
\* "newtag") and AddProcessor("db", p): the list of db then has three
\* processors in an array of four slots. adds counts the calls after that.
RegisteredProcessors ==
    AppendProcessor(AddDefaults([k \in {} |-> <<>>], <<DB, NewTag>>),
                    DB, "toolong")

RegisteredSpare ==
    AppendSpare(AddDefaults([k \in {} |-> <<>>], <<DB, NewTag>>),
                AddDefaultsSpare([k \in {} |-> <<>>], [k \in {} |-> <<>>],
                                 <<DB, NewTag>>),
                DB)

RegistryInit ==
    /\ source = "plain"
    /\ \/ processors = [k \in {} |-> <<>>] /\ spare = [k \in {} |-> <<>>]
       \/ processors = RegisteredProcessors /\ spare = RegisteredSpare
    /\ allowDuplicates = FALSE
    /\ packages = {}
    /\ tags = [k \in {} |-> <<>>]
    /\ pc = "idle"
    /\ streams = NoStreams
    /\ collected = NoTags
    /\ todo = <<>>
    /\ fieldsCache = {}
    /\ errs = <<>>
    /\ result = NoResult
    /\ log = <<>>
    /\ adds = 0
    /\ runs = 0
    /\ runModels = <<>>
    /\ last = NoRun
    /\ rtag = Tag(<<>>, <<>>, <<>>)
    /\ rerrs = [p \in {} |-> <<>>]
    /\ rdone = {}
    /\ NoFunction

RegistrySpec == RegistryInit /\ [][Next]_vars

\* no Validator is at work: the state NewValidator leaves, over no folder
NoValidator ==
    /\ source = "none"
    /\ processors = [k \in {} |-> <<>>]
    /\ spare = [k \in {} |-> <<>>]
    /\ allowDuplicates = FALSE
    /\ packages = {}
    /\ tags = [k \in {} |-> <<>>]
    /\ pc = "idle"
    /\ streams = NoStreams
    /\ collected = NoTags
    /\ todo = <<>>
    /\ fieldsCache = {}
    /\ errs = <<>>
    /\ result = NoResult
    /\ log = <<>>
    /\ adds = 0
    /\ runs = 0
    /\ runModels = <<>>
    /\ last = NoRun

\* no default processor is under study
NoRule ==
    /\ rtag = Tag(<<>>, <<>>, <<>>)
    /\ rerrs = [p \in {} |-> <<>>]
    /\ rdone = {}

\* ---------------------------------------------------------------- RuleSpec
\* The default processors applied to one Tag drawn from a bounded set.
RuleTags == {Tag(<<"d","b">>, v, <<"S">>) : v \in SeqUpTo(ValueChars, MaxLen)}

RuleInit ==
    /\ rtag \in RuleTags
    /\ rerrs = [p \in {} |-> <<>>]
    /\ rdone = {}
    /\ NoFunction
    /\ source = "none"
    /\ processors = [k \in {} |-> <<>>]
    /\ spare = [k \in {} |-> <<>>]
    /\ allowDuplicates = FALSE
    /\ packages = {}
    /\ tags = [k \in {} |-> <<>>]
    /\ pc = "idle"
    /\ streams = NoStreams
    /\ collected = NoTags
    /\ todo = <<>>
    /\ fieldsCache = {}
    /\ errs = <<>>
    /\ result = NoResult
    /\ log = <<>>
    /\ adds = 0
    /\ runs = 0
    /\ runModels = <<>>
    /\ last = NoRun

RunRegexProcessor ==
    /\ "regex" \notin rdone
    /\ \E order \in defaultRegexRules :
          rerrs' = [p \in DOMAIN rerrs \cup {"regex"} |->
                       IF p = "regex" THEN RegexProcessor(rtag, order)
                       ELSE rerrs[p]]
    /\ rdone' = rdone \cup {"regex"}
    /\ UNCHANGED <<rtag, vvars, xvars>>

RunEmptyProcessor ==
    /\ "empty" \notin rdone
    /\ rerrs' = [p \in DOMAIN rerrs \cup {"empty"} |->
                    IF p = "empty" THEN EmptyProcessor(rtag) ELSE rerrs[p]]
    /\ rdone' = rdone \cup {"empty"}
    /\ UNCHANGED <<rtag, vvars, xvars>>

RuleNext == RunRegexProcessor \/ RunEmptyProcessor

RuleSpec == RuleInit /\ [][RuleNext]_vars

\* -------------------------------------------------------------- FilterSpec
\* getPackages applied to a folder and a list of model names drawn from
\* bounded sets.
CGo == <<"c", ".", "g", "o">>

UpperCGo == <<"C", ".", "g", "o">>

CTestGo == <<"c", "_", "t", "e", "s", "t", ".", "g", "o">>

DGo == <<"d", ".", "g", "o">>

DTestGo == <<"d", "_", "t", "e", "s", "t", ".", "g", "o">>

\* the file names a folder may hold
FilterNames == {CGo, UpperCGo, CTestGo, DGo, DTestGo}

\* the lists of model names given to getPackages
FilterModels == {<<>>, <<<<"c">>>>, <<<<"C">>>>, <<<<"d">>>>,
                 <<<<"c">>, <<"d">>>>, <<<<"c", "_", "t", "e", "s", "t">>>>}

FilterInit ==
    /\ fdir \in SUBSET {File(n, <<>>) : n \in FilterNames}
    /\ fmodels \in FilterModels
    /\ fout = [status |-> "none", files |-> {}]
    /\ NoValidator
    /\ NoRule
    /\ NoGetTags
    /\ NoExtract

\* getPackages(folder, models...) returns the parsed files
GetPackagesReturn ==
    /\ fout.status = "none"
    /\ getPackages(fdir, fmodels) # {}
    /\ fout' = [status |-> "returned",
                files  |-> {f.name : f \in getPackages(fdir, fmodels)}]
    /\ UNCHANGED <<fdir, fmodels, vvars, rvars, gvars, cvars>>

\* getPackages(folder, models...) panics: len(pkgs) == 0
GetPackagesPanic ==
    /\ fout.status = "none"
    /\ getPackages(fdir, fmodels) = {}
    /\ fout' = [status |-> "panic", files |-> {}]
    /\ UNCHANGED <<fdir, fmodels, vvars, rvars, gvars, cvars>>

FilterNext == GetPackagesReturn \/ GetPackagesPanic

FilterSpec == FilterInit /\ [][FilterNext]_vars

\* ------------------------------------------------------------- GetTagsSpec
\* getTags as its goroutines run it: one extractor (collecFields) and one
\* output goroutine (multiplex) per file, the closing goroutine of multiplex
\* and the receiving loop of getTags, over channels with buffers.
DigitSeq == <<"1", "2", "3", "4", "5", "6", "7", "8", "9">>

\* a file with n tagged fields: the first two in structure S, the others in
\* structure T; the field values are the digits 1 to 9 in turn, the same in
\* every file
GFile(i, n) ==
    File(<<"f", DigitSeq[i], ".", "g", "o">>,
         <<TypeSpec(<<"S">>, [j \in 1..(IF n < 2 THEN n ELSE 2) |->
                                 RawTag(<<KV(DB, <<DigitSeq[j]>>)>>)]),
           TypeSpec(<<"T">>, [j \in 1..(IF n < 2 THEN 0 ELSE n - 2) |->
                                 RawTag(<<KV(DB,
                                     <<DigitSeq[((j + 1) % 9) + 1]>>)>>)])>>)

\* the sum of the numbers of a sequence
RECURSIVE SumSeq(_)
SumSeq(n) == IF n = <<>> THEN 0 ELSE Head(n) + SumSeq(Tail(n))

\* the lists of files getTags is called with: up to MaxFiles files with up
\* to MaxTags tagged fields together
GFileLists ==
    UNION {{[i \in 1..k |-> GFile(i, n[i])] :
               n \in {m \in [1..k -> 0..MaxTags] : SumSeq(m) <= MaxTags}} :
              k \in 0..MaxFiles}

\* one file with more tagged fields than its channel holds, and so with more
\* than the merged channel of one file holds
GBigFile == GFile(1, ChanCap + 1)

\* the tag names getTags is called with
GTagNames == <<DB>>

\* the nil *Tag
Nil == [nil |-> TRUE]

\* a mutation of the extractor: the closing nil is never sent
Sends_nosentinel(file) == collecFields(file, GTagNames)

\* what the goroutine of collecFields sends on tagChan: the Tags of the
\* traversal, then nil
Sends(file) == collecFields(file, GTagNames) \o <<Nil>>

\* a mutation of the channel: the newest element leaves first
chanSend_front(c, x) == <<x>> \o c

\* c <- x on a channel with a buffer: x joins the buffer at its end
chanSend(c, x) == Append(c, x)

\* make(chan *Tag, 50*len(cs))
outCap(cs) == 50 * Len(cs)

\* a mutation of the sentinel test: nothing is taken for nil
isNil_never(tag) == FALSE

\* tag == nil
isNil(tag) == tag = Nil

\* a mutation of wg.Wait: it returns while one output goroutine still runs
waitOver_early(n) == n <= 1

\* wg.Wait() returns when the counter is zero
waitOver(n) == n = 0

GetTagsInit ==
    /\ gfiles \in GFileLists \cup {<<GBigFile>>}
    /\ gpc = "call"
    /\ esends = <<>>
    /\ epos = <<>>
    /\ tagChan = <<>>
    /\ wpc = <<>>
    /\ wtag = <<>>
    /\ wg = 0
    /\ out = <<>>
    /\ clpc = "none"
    /\ closes = 0
    /\ gtags = [k \in {} |-> <<>>]
    /\ ghist = [received |-> <<>>, late |-> {}]
    /\ NoValidator
    /\ NoRule
    /\ NoFilter
    /\ NoExtract

\* getTags up to its loop: a channel and an extractor goroutine per file,
\* then multiplex: the out channel, wg.Add(len(cs)), an output goroutine per
\* channel and the closing goroutine
StartGetTags ==
    /\ gpc = "call"
    /\ gpc' = "loop"
    /\ esends' = [i \in DOMAIN gfiles |-> Sends(gfiles[i])]
    /\ epos' = [i \in DOMAIN gfiles |-> 0]
    /\ tagChan' = [i \in DOMAIN gfiles |-> <<>>]
    /\ wpc' = [i \in DOMAIN gfiles |-> "recv"]
    /\ wtag' = [i \in DOMAIN gfiles |-> Nil]
    /\ wg' = Len(gfiles)
    /\ out' = <<>>
    /\ clpc' = "wait"
    /\ UNCHANGED <<gfiles, closes, gtags, ghist, vvars, rvars, fvars, cvars>>

\* the goroutine of collecFields: tagChan <- &Tag{...}, and tagChan <- nil
\* at the end; the send waits while the buffer is full
ExtractorSend(i) ==
    /\ gpc # "call"
    /\ epos[i] < Len(esends[i])
    /\ Len(tagChan[i]) < ChanCap
    /\ tagChan' = [tagChan EXCEPT ![i] =
                      chanSend(@, [tag |-> esends[i][epos[i] + 1],
                                   src |-> i, seq |-> epos[i] + 1])]
    /\ epos' = [epos EXCEPT ![i] = @ + 1]
    /\ UNCHANGED <<gfiles, gpc, esends, wpc, wtag, wg, out, clpc, closes, gtags,
                   ghist, vvars, rvars, fvars, cvars>>

\* the output goroutine: tag := <-c; on nil it returns, and the deferred
\* wg.Done() runs
OutputRecv(i) ==
    /\ gpc # "call"
    /\ wpc[i] = "recv"
    /\ tagChan[i] # <<>>
    /\ tagChan' = [tagChan EXCEPT ![i] = Tail(@)]
    /\ IF isNil(Head(tagChan[i]).tag)
       THEN /\ wpc' = [wpc EXCEPT ![i] = "done"]
            /\ wg' = wg - 1
            /\ UNCHANGED wtag
       ELSE /\ wpc' = [wpc EXCEPT ![i] = "send"]
            /\ wtag' = [wtag EXCEPT ![i] = Head(tagChan[i])]
            /\ UNCHANGED wg
    /\ UNCHANGED <<gfiles, gpc, esends, epos, out, clpc, closes, gtags, ghist,
                   vvars, rvars, fvars, cvars>>

\* the output goroutine: out <- tag; the send waits while the buffer is
\* full, and panics when the channel is closed
OutputSend(i) ==
    /\ gpc # "call"
    /\ wpc[i] = "send"
    /\ IF closes > 0
       THEN /\ wpc' = [wpc EXCEPT ![i] = "panic"]
            /\ ghist' = [ghist EXCEPT !.late = @ \cup {i}]
            /\ UNCHANGED out
       ELSE /\ Len(out) < outCap(gfiles)
            /\ out' = chanSend(out, wtag[i])
            /\ wpc' = [wpc EXCEPT ![i] = "recv"]
            /\ UNCHANGED ghist
    /\ UNCHANGED <<gfiles, gpc, esends, epos, tagChan, wtag, wg, clpc, closes, gtags,
                   vvars, rvars, fvars, cvars>>

\* the closing goroutine: wg.Wait() returns
CloserWait ==
    /\ clpc = "wait"
    /\ waitOver(wg)
    /\ clpc' = "close"
    /\ UNCHANGED <<gfiles, gpc, esends, epos, tagChan, wpc, wtag, wg, out, closes,
                   gtags, ghist, vvars, rvars, fvars, cvars>>

\* the closing goroutine: close(out)
CloserClose ==
    /\ clpc = "close"
    /\ closes' = closes + 1
    /\ clpc' = "done"
    /\ UNCHANGED <<gfiles, gpc, esends, epos, tagChan, wpc, wtag, wg, out, gtags,
                   ghist, vvars, rvars, fvars, cvars>>

\* the loop of getTags: tag, ok := <-t with ok true; the Tag joins the list
\* of its structure name (a nil tag makes tag.structName panic)
LoopRecv ==
    /\ gpc = "loop"
    /\ out # <<>>
    /\ out' = Tail(out)
    /\ ghist' = [ghist EXCEPT !.received = Append(@, Head(out))]
    /\ IF Head(out).tag = Nil
       THEN gpc' = "panic" /\ UNCHANGED gtags
       ELSE gtags' = appendTag(gtags, Head(out).tag) /\ UNCHANGED gpc
    /\ UNCHANGED <<gfiles, esends, epos, tagChan, wpc, wtag, wg, clpc, closes,
                   vvars, rvars, fvars, cvars>>

\* the loop of getTags: ok is false, the channel is closed and drained;
\* break Loop and return tags
LoopBreak ==
    /\ gpc = "loop"
    /\ out = <<>>
    /\ closes > 0
    /\ gpc' = "returned"
    /\ UNCHANGED <<gfiles, esends, epos, tagChan, wpc, wtag, wg, out, clpc, closes,
                   gtags, ghist, vvars, rvars, fvars, cvars>>

GetTagsNext ==
    \/ StartGetTags
    \/ \E i \in DOMAIN gfiles : ExtractorSend(i)
    \/ \E i \in DOMAIN gfiles : OutputRecv(i)
    \/ \E i \in DOMAIN gfiles : OutputSend(i)
    \/ CloserWait
    \/ CloserClose
    \/ LoopRecv
    \/ LoopBreak

GetTagsSpec == GetTagsInit /\ [][GetTagsNext]_vars

\* the Go scheduler runs every goroutine that can take a step
GetTagsFair ==
    /\ GetTagsSpec
    /\ WF_vars(StartGetTags)
    /\ \A i \in 1..MaxFiles :
          /\ WF_vars(i \in DOMAIN gfiles /\ ExtractorSend(i))
          /\ WF_vars(i \in DOMAIN gfiles /\ OutputRecv(i))
          /\ WF_vars(i \in DOMAIN gfiles /\ OutputSend(i))
    /\ WF_vars(CloserWait)
    /\ WF_vars(CloserClose)
    /\ WF_vars(LoopRecv)
    /\ WF_vars(LoopBreak)

\* ================================================================= claims
\* the findings of a list that carry the format msg
WithMsg(es, msg) == {i \in 1..Len(es) : es[i].msg = msg}

\* ------------------------------------------------- what a Run left in log
\* the loop of validate has visited every Tag and is about to return
Finished == pc = "validate" /\ todo = <<>>

\* the entries of log of the given kind
Events(kind) == {i \in DOMAIN log : log[i].kind = kind}

\* the duplicate findings in a list of errors that name the Tag t
DuplicateFindings(es, t) ==
    {i \in DOMAIN es : /\ es[i].msg = MsgDuplicate
                       /\ es[i].args = <<t.value, t.structName, t.name>>}

\* the sum of the lengths of what the checks of log returned
RECURSIVE OutLen(_)
OutLen(events) ==
    IF events = <<>> THEN 0
    ELSE (IF Head(events).kind \in {"dup", "rule"} THEN Len(Head(events).out)
          ELSE 0) + OutLen(Tail(events))

\* what the checks of log returned, in the order of log
RECURSIVE OutOf(_)
OutOf(events) ==
    IF events = <<>> THEN <<>>
    ELSE (IF Head(events).kind \in {"dup", "rule"} THEN Head(events).out
          ELSE <<>>) \o OutOf(Tail(events))

\* C1: within one Run, a key (structName, tagName, value) carried by N
\* extracted Tags gets exactly N-1 duplicate findings when allowDuplicates is
\* false, and none, with the cache left untouched, when it is true.
C1_Claim ==
    Finished =>
        \A i \in Events("tag") :
            LET t == log[i].tag
                N == Cardinality({j \in Events("tag") : log[j].tag = t})
                D == Cardinality(DuplicateFindings(errs, t))
            IN  IF allowDuplicates THEN D = 0 /\ fieldsCache = {}
                ELSE D = N - 1

\* C2: with a rule registered, a Run that extracts no Tag returns the one
\* error "No tags found"; a Run that extracts at least one Tag does not
\* return it, so an empty result means Tags were extracted and every check
\* returned nothing.
C2_NoTagsFound ==
    (pc = "idle" /\ last.done /\ result.status = "returned" /\ last.keys # {})
        => /\ log # <<>> /\ log[1].kind = "getTags"
           /\ log[1].n = 0 => result.errs = <<ErrNoTags>>
           /\ log[1].n > 0 =>
                  \A i \in DOMAIN result.errs : result.errs[i] # ErrNoTags
           /\ result.errs = <<>> =>
                  /\ log[1].n > 0
                  /\ Events("tag") # {}
                  /\ \A i \in Events("dup") \cup Events("rule") : log[i].out = <<>>

\* a Run with rules registered extracted nothing and returned the one error
C2_Witness ==
    /\ pc = "idle" /\ last.done /\ last.keys # {}
    /\ log # <<>> /\ log[1].kind = "getTags" /\ log[1].n = 0
    /\ result = [status |-> "returned", errs |-> <<ErrNoTags>>]

\* C3: a Run with an empty registry, on a path that yields a package,
\* returns the one configuration error, and extracts no Tag, checks no
\* duplicate and evaluates no rule.
C3_EmptyRegistry ==
    (pc = "idle" /\ last.done /\ result.status = "returned" /\ last.keys = {})
        => /\ result.errs = <<ErrNoProcessors>>
           /\ log = <<>>

\* a Run with an empty registry has parsed a package and returned
C3_Witness ==
    /\ pc = "idle" /\ last.done /\ last.keys = {}
    /\ packages # {}
    /\ result = [status |-> "returned", errs |-> <<ErrNoProcessors>>]

\* the calls of the registered processor p on the Tag visited as number rec
CallsOf(p, rec) ==
    {i \in Events("rule") : log[i].rec = rec /\ log[i].rule = p}

\* C4: every applicable rule is executed exactly once on every Tag, whatever
\* the duplicate check or an earlier rule returned, and the result holds
\* every error of every call: as many findings as the duplicate check and
\* the rule calls returned together.
C4_NoShortCircuit ==
    /\ pc = "validate" =>
          /\ \A i \in Events("tag") :
             \A k \in DOMAIN processors :
                 (k = log[i].tag.name \/ k = AllTags) =>
                     \A n \in DOMAIN processors[k] :
                         Cardinality(CallsOf(processors[k][n], log[i].rec)) = 1
          /\ Len(errs) = OutLen(log)
    /\ (pc = "idle" /\ last.done /\ result.status = "returned"
            /\ Events("tag") # {}) => Len(result.errs) = OutLen(log)

\* a Run is over in which a rule ran on a Tag after an earlier rule had
\* returned two errors for that Tag
C4_Witness ==
    /\ Finished
    /\ \E i, j \in Events("rule") :
          /\ i < j
          /\ log[i].rec = log[j].rec
          /\ Len(log[i].out) = 2
    /\ Len(errs) >= 3

\* C5: a rule registered under key k is executed on a Tag t if and only if k
\* is t's name or the wildcard key.
C5_Dispatch ==
    pc = "validate" =>
        \A i \in Events("tag") :
        \A k \in DOMAIN processors :
        \A n \in DOMAIN processors[k] :
            (CallsOf(processors[k][n], log[i].rec) # {})
                <=> (k = log[i].tag.name \/ k = AllTags)

\* a wildcard rule ran on a Tag whose name has no rules, while the rules of
\* another name are registered and did not run on it
C5_Witness ==
    /\ pc = "validate"
    /\ \E i \in Events("rule") :
          /\ log[i].rule.key = AllTags
          /\ log[i].tag.name \notin DOMAIN processors
          /\ \E k \in DOMAIN processors : k # AllTags

\* the place of an entry of log among the checks of its Tag
Rank(e) ==
    CASE e.kind = "tag" -> <<0, 0>>
      [] e.kind = "dup" -> <<1, 0>>
      [] e.kind = "rule" /\ e.rule.key # AllTags -> <<2, e.rule.id>>
      [] e.kind = "rule" /\ e.rule.key = AllTags -> <<3, e.rule.id>>

\* C6: for each Tag the checks run, and their findings are appended, in the
\* order: the duplicate check, the rules of the Tag's name in the order of
\* their registration, the wildcard rules in the order of their registration.
C6_CheckOrder ==
    pc = "validate" =>
        /\ \A i, j \in DOMAIN log \ Events("getTags") :
              i < j =>
                 \/ log[i].rec < log[j].rec
                 \/ /\ log[i].rec = log[j].rec
                    /\ \/ Rank(log[i])[1] < Rank(log[j])[1]
                       \/ /\ Rank(log[i])[1] = Rank(log[j])[1]
                          /\ Rank(log[i])[2] < Rank(log[j])[2]
        /\ errs = OutOf(log)

\* a Tag went through the duplicate check, two rules of its name and a
\* wildcard rule, and a rule of its name and the wildcard rule found errors
C6_Witness ==
    /\ pc = "validate"
    /\ \E d \in Events("dup") : \E a, b, c \in Events("rule") :
          /\ log[a].rec = log[d].rec
          /\ log[b].rec = log[d].rec
          /\ log[c].rec = log[d].rec
          /\ a # b
          /\ log[a].rule.key # AllTags /\ log[a].out # <<>>
          /\ log[b].rule.key # AllTags
          /\ log[c].rule.key = AllTags /\ log[c].out # <<>>

\* C7: with allowDuplicates false, a Tag is reported as a duplicate if and
\* only if a Tag processed earlier in the same Run has the same structName,
\* the same name and the same value.
C7_Claim ==
    pc = "validate" =>
        \A i \in Events("dup") :
            (log[i].out # <<>>)
                <=> (\E j \in Events("tag") :
                        /\ log[j].rec < log[i].rec
                        /\ log[j].tag.structName = log[i].tag.structName
                        /\ log[j].tag.name = log[i].tag.name
                        /\ log[j].tag.value = log[i].tag.value)

\* C8: the duplicate cache starts empty at every Run: during a Run it holds
\* the keys of the Tags visited in that Run and nothing else, and two Runs
\* in a row with the same sources, file names, registry keys and
\* allowDuplicates report the same number of duplicates.
C8_FreshCache ==
    /\ pc = "validate" =>
          fieldsCache = IF allowDuplicates THEN {}
                        ELSE {Join(<<log[i].tag.structName, log[i].tag.name,
                                     log[i].tag.value>>, <<".">>) :
                                 i \in Events("tag")}
    /\ (last.done /\ last.same) => last.before = last.dups

\* two Runs in a row with the same inputs are over, each with duplicates
C8_Witness ==
    /\ pc = "idle" /\ last.done /\ last.same
    /\ last.dups > 0 /\ last.before = last.dups

\* the character set the spec names for the character-set rule: [a-z0-9_ ]
C9_SpecSet == Lower \cup Digit \cup {"_", " "}

\* the character set the character-set rule accepts: [a-z0-9_, ]
C9_CodeSet == Lower \cup Digit \cup {"_", ",", " "}

\* C9 as stated: the character-set rule produces a finding if and only if
\* the value contains a character outside [a-z0-9_ ]; a comma makes it fail.
C9_Original ==
    "regex" \in rdone =>
        ((WithMsg(rerrs["regex"], MsgInvalidSymbols) # {})
            <=> (\E i \in 1..Len(rtag.value) : rtag.value[i] \notin C9_SpecSet))

\* C9 amended: the character-set rule produces a finding if and only if the
\* value contains a character outside [a-z0-9_, ]: the comma is accepted.
C9_CharsetIff ==
    "regex" \in rdone =>
        ((WithMsg(rerrs["regex"], MsgInvalidSymbols) # {})
            <=> (\E i \in 1..Len(rtag.value) : rtag.value[i] \notin C9_CodeSet))

\* the rule ran on a value holding a comma and a hyphen and reported it
C9_Witness ==
    /\ "regex" \in rdone
    /\ \E i \in 1..Len(rtag.value) : rtag.value[i] = ","
    /\ \E i \in 1..Len(rtag.value) : rtag.value[i] = "-"
    /\ WithMsg(rerrs["regex"], MsgInvalidSymbols) # {}

\* the positions where a maximal run of characters outside [a-z0-9_, ] begins
C10_RunStarts(s) ==
    {i \in 1..Len(s) : /\ s[i] \notin C9_CodeSet
                       /\ (i = 1 \/ s[i - 1] \in C9_CodeSet)}

\* the text of the maximal run that begins at i
C10_RunText(s, i) ==
    LET j == CHOOSE j \in i..Len(s) :
                 /\ \A k \in i..j : s[k] \notin C9_CodeSet
                 /\ (j = Len(s) \/ s[j + 1] \in C9_CodeSet)
    IN  [k \in 1..(j - i + 1) |-> s[i + k - 1]]

\* C10 as stated: a value with m maximal runs of illegal characters gets
\* exactly m character-set findings, one per run.
C10_Original ==
    "regex" \in rdone =>
        Cardinality(WithMsg(rerrs["regex"], MsgInvalidSymbols))
            = Cardinality(C10_RunStarts(rtag.value))

\* C10 amended: a value with m maximal runs of illegal characters gets one
\* character-set finding when m >= 1 and none when m = 0; the finding names
\* the text of the leftmost run, the structure name, the tag name and the
\* full value.
C10_FirstRunOnly ==
    "regex" \in rdone =>
        LET starts == C10_RunStarts(rtag.value)
            found  == WithMsg(rerrs["regex"], MsgInvalidSymbols)
        IN  IF starts = {} THEN found = {}
            ELSE LET first == CHOOSE i \in starts : \A k \in starts : i <= k
                 IN  /\ Cardinality(found) = 1
                     /\ \A f \in found :
                          rerrs["regex"][f].args =
                              <<C10_RunText(rtag.value, first), rtag.structName,
                                rtag.name, rtag.value>>

\* the rule ran on a value with two separate runs, the first of them two
\* characters long, and produced one finding
C10_Witness ==
    /\ "regex" \in rdone
    /\ Cardinality(C10_RunStarts(rtag.value)) = 2
    /\ \E i \in C10_RunStarts(rtag.value) : Len(C10_RunText(rtag.value, i)) = 2
    /\ Cardinality(WithMsg(rerrs["regex"], MsgInvalidSymbols)) = 1

\* C11: the trailing-character rule produces a finding exactly when the
\* value is not empty and its last character is outside [a-z0-9]; the
\* emptiness rule produces a finding exactly when the value has length zero;
\* so the empty value gets the emptiness finding and no other, and a value
\* that is not empty, made of [a-z0-9_ ] and ending in [a-z0-9], gets none.
C11_TrailingAndEmpty ==
    LET v == rtag.value
    IN  /\ "regex" \in rdone =>
              ((WithMsg(rerrs["regex"], MsgCannotEnd) # {})
                  <=> (Len(v) > 0 /\ v[Len(v)] \notin (Lower \cup Digit)))
        /\ "empty" \in rdone => ((rerrs["empty"] # <<>>) <=> (Len(v) = 0))
        /\ (rdone = {"regex", "empty"} /\ Len(v) = 0) =>
              /\ rerrs["regex"] = <<>>
              /\ Len(rerrs["empty"]) = 1
              /\ rerrs["empty"][1].msg = MsgEmpty
        /\ (/\ rdone = {"regex", "empty"}
            /\ Len(v) > 0
            /\ \A i \in 1..Len(v) : v[i] \in C9_SpecSet
            /\ v[Len(v)] \in (Lower \cup Digit)) =>
              rerrs["regex"] = <<>> /\ rerrs["empty"] = <<>>

\* both default processors ran on a value that ends in an underscore after a
\* letter: the trailing-character rule alone objected
C11_Witness ==
    /\ rdone = {"regex", "empty"}
    /\ Len(rtag.value) >= 2
    /\ rtag.value[Len(rtag.value)] = "_"
    /\ rtag.value[Len(rtag.value) - 1] = "a"
    /\ Cardinality(WithMsg(rerrs["regex"], MsgCannotEnd)) = 1
    /\ rerrs["empty"] = <<>>

\* the file name is <model>.go for a listed model, letter case apart
C12_Named(fname, models) ==
    \E i \in DOMAIN models :
        ToLower(fname) = ToLower(models[i]) \o <<".", "g", "o">>

\* the file name ends in _test.go
C12_IsTest(fname) ==
    /\ Len(fname) >= 8
    /\ Slice(fname, Len(fname) - 7, Len(fname))
          = <<"_", "t", "e", "s", "t", ".", "g", "o">>

\* C12: with a list of model names that is not empty, only files named
\* <model>.go for a listed model, letter case apart, are scanned, so no
\* _test.go file the list does not name; with an empty list, exactly the
\* files whose name does not end in _test.go are scanned.
C12_Claim ==
    fout.status = "returned" =>
        IF fmodels # <<>>
        THEN \A n \in fout.files : C12_Named(n, fmodels)
        ELSE fout.files = {f.name : f \in {g \in fdir : ~C12_IsTest(g.name)}}

\* the Tags the traversals of the files emit, file after file
Emitted == Flatten([i \in DOMAIN gfiles |-> collecFields(gfiles[i], GTagNames)])

\* how often x occurs in the sequence s
Count(s, x) == Cardinality({i \in DOMAIN s : s[i] = x})

\* every goroutine getTags started has ended, and getTags has returned
GetTagsDone ==
    /\ gpc = "returned"
    /\ clpc = "done"
    /\ \A i \in DOMAIN gfiles :
          /\ wpc[i] = "done"
          /\ epos[i] = Len(collecFields(gfiles[i], GTagNames)) + 1

\* C13: for given files and tag names, whatever the interleaving of the
\* goroutines, getTags returns a map whose keys are the structure names of
\* the emitted Tags and whose list for a structure name holds, as a multiset,
\* exactly the emitted Tags of that structure name.
C13_SameMultiset ==
    gpc = "returned" =>
        /\ DOMAIN gtags = {Emitted[k].structName : k \in DOMAIN Emitted}
        /\ \A sn \in DOMAIN gtags :
              /\ \A k \in DOMAIN gtags[sn] : gtags[sn][k].structName = sn
              /\ \A k \in DOMAIN Emitted :
                    Emitted[k].structName = sn =>
                        Count(gtags[sn], Emitted[k]) = Count(Emitted, Emitted[k])
              /\ \A k \in DOMAIN gtags[sn] : Count(Emitted, gtags[sn][k]) > 0

\* getTags returned the Tags of two files with two structure names, one
\* record being in both files
C13_Witness ==
    /\ gpc = "returned"
    /\ Len(gfiles) = 2
    /\ DOMAIN gtags = {<<"S">>, <<"T">>}
    /\ Len(gtags[<<"S">>]) = 3
    /\ Len(gtags[<<"T">>]) = 1
    /\ Count(gtags[<<"S">>], gtags[<<"S">>][1]) = 2

\* C14: under fair scheduling getTags eventually returns, with the merged
\* channel closed and every extractor, output, closing and receiving
\* goroutine at its end, for every number of files and of tags per file, also
\* beyond the capacities of the channels.
C14_Terminates == <>GetTagsDone

\* getTags returned after a file sent more Tags than its channel holds and
\* the files together more than the merged channel holds
C14_Witness ==
    /\ GetTagsDone
    /\ closes = 1
    /\ \E i \in DOMAIN gfiles : Len(esends[i]) > ChanCap + 1
    /\ Len(Emitted) > outCap(gfiles)
    /\ Len(ghist.received) = Len(Emitted)

\* C15: when the loop of getTags sees the merged channel closed, every Tag an
\* extractor sent has been received exactly once, and nil is never received.
C15_ExactlyOnce ==
    LET rec == ghist.received
    IN  /\ \A k \in DOMAIN rec : rec[k].tag # Nil
        /\ \A k, l \in DOMAIN rec :
              (rec[k].src = rec[l].src /\ rec[k].seq = rec[l].seq) => k = l
        /\ gpc = "returned" =>
              \A i \in DOMAIN gfiles :
                 \A j \in 1..epos[i] :
                    Sends(gfiles[i])[j] # Nil =>
                       \E k \in DOMAIN rec :
                          /\ rec[k].src = i
                          /\ rec[k].seq = j
                          /\ rec[k].tag = Sends(gfiles[i])[j]

\* the loop saw the channel closed after receiving the Tags of two files
C15_Witness ==
    /\ gpc = "returned"
    /\ Len(gfiles) = 2
    /\ \A i \in DOMAIN gfiles : epos[i] >= 2
    /\ \E i \in DOMAIN gfiles : epos[i] > 2
    /\ Len(ghist.received) = Len(Emitted)

\* C16: the merged channel is closed once, and only after every output
\* goroutine has received the nil of its own channel and returned, so after
\* every extractor has sent all its Tags and its nil; no output goroutine
\* sends on the channel after it was closed.
C16_CloseOnce ==
    /\ closes <= 1
    /\ ghist.late = {}
    /\ (clpc = "close" \/ closes > 0) =>
          \A i \in DOMAIN gfiles :
             /\ wpc[i] = "done"
             /\ tagChan[i] = <<>>
             /\ epos[i] = Len(collecFields(gfiles[i], GTagNames)) + 1
    /\ gpc = "returned" => closes = 1

\* the channel was closed after two output goroutines returned, each having
\* forwarded Tags
C16_Witness ==
    /\ closes = 1
    /\ Len(gfiles) = 2
    /\ \A i \in DOMAIN gfiles : wpc[i] = "done" /\ epos[i] >= 3

\* C17: two Tags of one file are received in the order of the traversal of
\* that file, and the list of a structure name holds its Tags in the order
\* they were received; between Tags of different files no order holds.
C17_FileOrder ==
    LET rec == ghist.received
    IN  /\ \A k, l \in DOMAIN rec :
              (k < l /\ rec[k].src = rec[l].src) => rec[k].seq < rec[l].seq
        /\ \A sn \in DOMAIN gtags :
              LET mine == SelectSeq(rec, LAMBDA m : m.tag.structName = sn)
              IN  gtags[sn] = [k \in DOMAIN mine |-> mine[k].tag]

\* a Tag of the second file was received between two Tags of the first, all
\* three of one structure name
C17_Witness ==
    LET rec == ghist.received
    IN  \E k \in DOMAIN rec :
           /\ k + 2 \in DOMAIN rec
           /\ rec[k].src = 1 /\ rec[k + 1].src = 2 /\ rec[k + 2].src = 1
           /\ rec[k].tag.structName = rec[k + 1].tag.structName
           /\ rec[k].tag.structName = rec[k + 2].tag.structName
           /\ Len(gtags[rec[k].tag.structName]) >= 3

\* the rules executed on the Tag visited as number rec
C18_Executed(rec) ==
    {i \in Events("rule") : log[i].rec = rec}

\* C18: Run leaves the registry as it was: no step of a Run changes the keys
\* of v.processors or the list of a key, also when the wildcard rules are
\* appended to the rules of a name, and also in a Run that follows further
\* AddProcessor calls; and every rule executed on a Tag is the rule the
\* registry holds at that place under the Tag's name or under the wildcard
\* key, each of them executed once.
C18_RegistryFrame ==
    /\ [][(runs' # runs \/ pc # "idle") => processors' = processors]_vars
    /\ [](\A i \in Events("rule") :
             LET r == log[i].rule
             IN  /\ r.key \in DOMAIN processors
                 /\ r.key \in {log[i].tag.name, AllTags}
                 /\ r.id \in DOMAIN processors[r.key]
                 /\ processors[r.key][r.id] = r)
    /\ [](\A i \in Events("tag") :
             Cardinality(C18_Executed(log[i].rec))
                = (IF log[i].tag.name \in DOMAIN processors
                   THEN Len(processors[log[i].tag.name]) ELSE 0)
                  + (IF AllTags \in DOMAIN processors
                     THEN Len(processors[AllTags]) ELSE 0))

\* a second Run returned, after a first Run wrote the one wildcard rule into
\* the free slot of the array of db's rules and a second wildcard rule was
\* added: the slot still holds the wildcard rule, db's list its three rules
C18_Witness ==
    /\ pc = "idle"
    /\ result.status = "returned"
    /\ runs = 2
    /\ DB \in DOMAIN processors /\ AllTags \in DOMAIN processors
    /\ Len(processors[DB]) = 3
    /\ Len(processors[AllTags]) = 2
    /\ spare[DB] = <<processors[AllTags][1]>>
    /\ \E i \in Events("rule") :
          log[i].tag.name = DB /\ log[i].rule = processors[AllTags][2]

\* ------------------------------------------------------------- ExtractSpec
\* collecFields on its own: one file, one traversal.

\* the most declarations in the file handed to collecFields
MaxDecls == 3

\* type ( specs ) or var ( specs ): a declaration that groups specs
GenDecl(specs) == [type |-> "GenDecl", children |-> specs]

\* var x struct { fields }
ValueSpec(fieldTags) ==
    [type |-> "ValueSpec", children |-> <<StructType(fieldTags, <<>>)>>]

\* type S struct { A int 'json:"a" db:"a"'; B int; C int 'db:"b" db:"c"' }
DeclFlat ==
    GenDecl(<<TypeSpec(<<"S">>,
                       <<RawTag(<<KV(JSON, <<"a">>), KV(DB, <<"a">>)>>),
                         NoTag,
                         RawTag(<<KV(DB, <<"b">>), KV(DB, <<"c">>)>>)>>)>>)

\* type N struct { O struct { I int 'db:"i"' } 'db:"o"' }
DeclNested ==
    GenDecl(<<[type |-> "TypeSpec", name |-> <<"N">>,
               children |-> <<StructType(<<RawTag(<<KV(DB, <<"o">>)>>)>>,
                               <<StructType(<<RawTag(<<KV(DB, <<"i">>)>>)>>,
                                            <<>>)>>)>>]>>)

\* func f() { type L struct { F int 'db:"f"' } }
DeclFunc == FuncDecl(<<"L">>, <<RawTag(<<KV(DB, <<"f">>)>>)>>)

\* var v struct { V int 'db:"v"' }
DeclValue == GenDecl(<<ValueSpec(<<RawTag(<<KV(DB, <<"v">>)>>)>>)>>)

\* type U int
DeclInt == GenDecl(<<[type |-> "TypeSpec", name |-> <<"U">>, children |-> <<>>]>>)

\* type W struct { A int 'a<newline>b:"c"' }: a raw tag over two lines
DeclNewline ==
    GenDecl(<<TypeSpec(<<"W">>,
                       <<RawTag(<<KV(<<"a", "\n", "b">>, <<"c">>)>>)>>)>>)

ExtractDecls ==
    {DeclFlat, DeclNested, DeclFunc, DeclValue, DeclInt, DeclNewline}

\* the values of the field tags that lie below a pruned node
PrunedValues == {<<"f">>, <<"v">>}

\* type B struct { ... }: more tagged fields than the channel holds
DeclWide ==
    GenDecl(<<TypeSpec(<<"B">>,
                       [j \in 1..(ChanCap + 1) |->
                           RawTag(<<KV(DB, <<DigitSeq[(j % 9) + 1]>>)>>)])>>)

ExtractFiles ==
    {File(CGo, ds) :
        ds \in UNION {[1..n -> ExtractDecls] : n \in 0..MaxDecls}}
    \cup {File(DGo, <<DeclWide>>)}

\* the tag names the matcher is built from
ExtractNames == {<<DB>>, <<AllTags>>, <<KeyA, KeyAB>>}

ExtractInit ==
    /\ cfile \in ExtractFiles
    /\ cnames \in ExtractNames
    /\ cpc = "none"
    /\ csends = <<>>
    /\ cpos = 0
    /\ cchan = <<>>
    /\ cgot = <<>>
    /\ NoValidator
    /\ NoRule
    /\ NoFilter
    /\ NoGetTags

\* collecFields(file, dbRegex): the channel is made and the goroutine started
CollecFieldsCall ==
    /\ cpc = "none"
    /\ cpc' = "run"
    /\ csends' = collecFields(cfile, cnames) \o <<Nil>>
    /\ cpos' = 0
    /\ cchan' = <<>>
    /\ UNCHANGED <<cfile, cnames, cgot, vvars, rvars, fvars, gvars>>

\* the goroutine: the next send of the traversal, a Tag or the nil that ends
\* it; the send waits while the buffer of tagChan is full
CollecFieldsSend ==
    /\ cpc = "run"
    /\ Len(cchan) < ChanCap
    /\ cchan' = chanSend(cchan, csends[cpos + 1])
    /\ cpos' = cpos + 1
    /\ cpc' = IF cpos + 1 = Len(csends) THEN "ended" ELSE "run"
    /\ UNCHANGED <<cfile, cnames, csends, cgot, vvars, rvars, fvars, gvars>>

\* the reader of tagChan takes the oldest message of the buffer
TagChanRecv ==
    /\ cchan # <<>>
    /\ cgot' = Append(cgot, Head(cchan))
    /\ cchan' = Tail(cchan)
    /\ UNCHANGED <<cfile, cnames, cpc, csends, cpos, vvars, rvars, fvars,
                   gvars>>

ExtractNext == CollecFieldsCall \/ CollecFieldsSend \/ TagChanRecv

ExtractSpec == ExtractInit /\ [][ExtractNext]_vars

\* the Tags the goroutine has sent so far
Sent == SelectSeq(SubSeq(csends, 1, cpos), LAMBDA m : m # Nil)

\* the structure-type nodes at and below a node, in the order of the source,
\* without those below a function declaration or a value declaration
RECURSIVE StructsUnder(_)
StructsUnder(n) ==
    IF n.type \in {"FuncDecl", "ValueSpec"} THEN <<>>
    ELSE (IF n.type = "StructType" THEN <<n>> ELSE <<>>)
         \o Flatten([i \in 1..Len(n.children) |-> StructsUnder(n.children[i])])

\* the type declarations of a top-level declaration
TypeSpecsOf(d) ==
    IF d.type = "TypeSpec" THEN <<d>>
    ELSE IF d.type = "GenDecl"
    THEN SelectSeq(d.children, LAMBDA x : x.type = "TypeSpec")
    ELSE <<>>

\* one Tag per match of the matcher on one field tag, with the given name
FieldRecords(fieldTag, structName, tagNames) ==
    IF fieldTag = NoTag THEN <<>>
    ELSE LET ms == FindAllStringSubmatch(fieldTag, 1, tagNames)
         IN  [k \in 1..Len(ms) |-> Tag(ms[k][1], ms[k][2], structName)]

\* the Tags of one type declaration: those of the fields of every
\* structure type it encloses, under the name of the declaration
TypeSpecRecords(ts, tagNames) ==
    LET structs == StructsUnder(ts)
    IN  Flatten([i \in 1..Len(structs) |->
            Flatten([j \in 1..Len(structs[i].fieldTags) |->
                FieldRecords(structs[i].fieldTags[j], ts.name, tagNames)])])

\* the Tags of a file: those of its type declarations, in their order
FileRecords(file, tagNames) ==
    Flatten([i \in 1..Len(file.decls) |->
        LET tss == TypeSpecsOf(file.decls[i])
        IN  Flatten([j \in 1..Len(tss) |-> TypeSpecRecords(tss[j], tagNames)])])

\* C19: the extractor emits one Tag per match of the matcher on every tagged
\* field of every structure type it reaches, under the name of the type
\* declaration that encloses the field, nested structure literals included;
\* it emits nothing for the field tags below a function declaration or a
\* value declaration, and the declarations after such a node are extracted.
\* (A match does not run over a line break of the field tag: of the tag of W
\* only b:"c" can match.)
C19_Extraction ==
    /\ cpc = "ended" => Sent = FileRecords(cfile, cnames)
    /\ \A i \in DOMAIN Sent :
          /\ Sent[i].value \notin PrunedValues
          /\ Sent[i].structName = <<"W">> => Sent[i].name = <<"b">>

\* a function declaration, then a flat and a nested structure: the Tags are
\* those of S (two matches on its last field) and of N, the inner field too
C19_Witness ==
    /\ cfile.decls = <<DeclFunc, DeclFlat, DeclNested>>
    /\ cnames = <<DB>>
    /\ cpc = "ended"
    /\ Sent = <<Tag(DB, <<"a">>, <<"S">>), Tag(DB, <<"b">>, <<"S">>),
                Tag(DB, <<"c">>, <<"S">>), Tag(DB, <<"o">>, <<"N">>),
                Tag(DB, <<"i">>, <<"N">>)>>
    /\ cgot = Sent \o <<Nil>>

\* ------------------------------------------------------------- RepeatSpec
\* Runs of one Validator over a folder whose two files declare the same
\* structure, so that the order of the Tags of S depends on the goroutines.
RepeatInit ==
    /\ source = "split"
    /\ processors = [k \in {} |-> <<>>]
    /\ spare = [k \in {} |-> <<>>]
    /\ allowDuplicates = FALSE
    /\ packages = {}
    /\ tags = [k \in {} |-> <<>>]
    /\ pc = "idle"
    /\ streams = NoStreams
    /\ collected = NoTags
    /\ todo = <<>>
    /\ fieldsCache = {}
    /\ errs = <<>>
    /\ result = NoResult
    /\ log = <<>>
    /\ adds = 0
    /\ runs = 0
    /\ runModels = <<>>
    /\ last = NoRun
    /\ NoRule
    /\ NoFunction

RepeatSpec == RepeatInit /\ [][Next]_vars

\* C20: with rules that are functions of the Tag alone, the findings a Run
\* returns are, but for their order, the same in every execution over the
\* same folder, file names, registry and allowDuplicates: a Run that follows
\* a Run of the same Validator with the same of each returns the same
\* messages, each as often.
C20_Claim ==
    (pc = "idle" /\ last.done) => last.agree

====
